---- MODULE Spec2Model ----
(***************************************************************************)
(* A model of pylite.py: the tree-walking interpreter PyliteInterpreter    *)
(* (strategy "correct"), StochasticPyliteInterpreter ("stochastic") and    *)
(* BindingInterpreter ("binding").                                         *)
(*                                                                         *)
(* Values are records [t, n, d, s]: t is the host type ("int", "bool",     *)
(* "float", "str", "none") or, for a raised exception, its kind; n/d is    *)
(* the number (d = 1 for int and bool; a float is kept as the exact        *)
(* rational n/d in lowest terms, so host rounding is abstracted away); s   *)
(* is the string as a sequence of code points.                             *)
(***************************************************************************)
EXTENDS Integers, Sequences, FiniteSets, TLC

VARIABLES strategy, env, status, last, pc

vars == <<strategy, env, status, last, pc>>

----------------------------------------------------------------------------
(* Bounds of the model.                                                    *)

\* largest magnitude of a numerator or denominator kept in the environment
MaxAbs == 2
\* longest string kept in the environment
MaxLen == 3
\* most passes of a While body followed before the run counts as diverging
MaxIter == 3
\* most random draws one top-level statement may consume
MaxDraws == 4
\* largest numeric literal of the expressions evaluated on their own
MaxLeaf == 4

----------------------------------------------------------------------------
(* Values.                                                                 *)

IntV(i) == [t |-> "int", n |-> i, d |-> 1, s |-> <<>>]
BoolV(b) == [t |-> "bool", n |-> IF b THEN 1 ELSE 0, d |-> 1, s |-> <<>>]
StrV(str) == [t |-> "str", n |-> 0, d |-> 1, s |-> str]
NoneV == [t |-> "none", n |-> 0, d |-> 1, s |-> <<>>]
Raise(kind) == [t |-> kind, n |-> 0, d |-> 1, s |-> <<>>]

ErrorKinds == {"UndefinedVariable", "UndefinedFunction", "TypeError",
               "ZeroDivisionError", "Unmodelled"}
IsError(v) == v.t \in ErrorKinds
IsNum(v) == v.t \in {"int", "bool", "float"}
IsIntLike(v) == v.t \in {"int", "bool"}

Abs(i) == IF i < 0 THEN -i ELSE i

RECURSIVE Gcd(_, _)
Gcd(a, b) == IF b = 0 THEN a ELSE Gcd(b, a % b)

\* the float p/q (q # 0) in lowest terms with a positive denominator
FloatV(p, q) ==
  LET g == Gcd(Abs(p), Abs(q))
      sg == IF q < 0 THEN -1 ELSE 1
  IN [t |-> "float", n |-> sg * (p \div g), d |-> sg * (q \div g), s |-> <<>>]

\* the number p/q in the host type the operands give: float if either is
NumV(a, b, p, q) ==
  IF a.t = "float" \/ b.t = "float" THEN FloatV(p, q) ELSE IntV(p \div q)

\* floor of p/q, q # 0
FloorQ(p, q) == IF q < 0 THEN (-p) \div (-q) ELSE p \div q

RECURSIVE IPow(_, _)
IPow(b, e) == IF e = 0 THEN 1 ELSE b * IPow(b, e - 1)

RECURSIVE Repeat(_, _)
Repeat(str, k) == IF k <= 0 THEN <<>> ELSE str \o Repeat(str, k - 1)

\* str < str of the host: lexicographic by code point
RECURSIVE StrLess(_, _)
StrLess(a, b) ==
  IF b = <<>> THEN FALSE
  ELSE IF a = <<>> THEN TRUE
  ELSE IF Head(a) # Head(b) THEN Head(a) < Head(b)
  ELSE StrLess(Tail(a), Tail(b))

----------------------------------------------------------------------------
(* The host's binary operators (module operator), on values.               *)

operator_add(a, b) ==
  IF IsNum(a) /\ IsNum(b) THEN NumV(a, b, a.n * b.d + b.n * a.d, a.d * b.d)
  ELSE IF a.t = "str" /\ b.t = "str" THEN StrV(a.s \o b.s)
  ELSE Raise("TypeError")

operator_sub(a, b) ==
  IF IsNum(a) /\ IsNum(b) THEN NumV(a, b, a.n * b.d - b.n * a.d, a.d * b.d)
  ELSE Raise("TypeError")

\* operator_mul repeating a string once too often
operator_mul_Mutant(a, b) ==
  IF IsNum(a) /\ IsNum(b) THEN NumV(a, b, a.n * b.n, a.d * b.d)
  ELSE IF a.t = "str" /\ IsIntLike(b) THEN StrV(Repeat(a.s, b.n + 1))
  ELSE IF IsIntLike(a) /\ b.t = "str" THEN StrV(Repeat(b.s, a.n + 1))
  ELSE Raise("TypeError")

operator_mul(a, b) ==
  IF IsNum(a) /\ IsNum(b) THEN NumV(a, b, a.n * b.n, a.d * b.d)
  ELSE IF a.t = "str" /\ IsIntLike(b) THEN StrV(Repeat(a.s, b.n))
  ELSE IF IsIntLike(a) /\ b.t = "str" THEN StrV(Repeat(b.s, a.n))
  ELSE Raise("TypeError")

operator_truediv(a, b) ==
  IF IsNum(a) /\ IsNum(b)
  THEN IF b.n = 0 THEN Raise("ZeroDivisionError")
       ELSE FloatV(a.n * b.d, a.d * b.n)
  ELSE Raise("TypeError")

\* operator_floordiv rounding toward zero
operator_floordiv_Mutant(a, b) ==
  IF IsNum(a) /\ IsNum(b)
  THEN IF b.n = 0 THEN Raise("ZeroDivisionError")
       ELSE LET p == a.n * b.d
                q == a.d * b.n
                t == Abs(p) \div Abs(q)
            IN NumV(a, b, IF (p < 0) = (q < 0) THEN t ELSE -t, 1)
  ELSE Raise("TypeError")

operator_floordiv(a, b) ==
  IF IsNum(a) /\ IsNum(b)
  THEN IF b.n = 0 THEN Raise("ZeroDivisionError")
       ELSE NumV(a, b, FloorQ(a.n * b.d, a.d * b.n), 1)
  ELSE Raise("TypeError")

\* str % x formats; a string that holds no '%' (none of the model does)
\* rejects every argument with TypeError
operator_mod(a, b) ==
  IF IsNum(a) /\ IsNum(b)
  THEN IF b.n = 0 THEN Raise("ZeroDivisionError")
       ELSE LET q == FloorQ(a.n * b.d, a.d * b.n)
            IN NumV(a, b, a.n * b.d - b.n * q * a.d, a.d * b.d)
  ELSE Raise("TypeError")

\* a power with an exponent that is not a whole number is outside the model
operator_pow(a, b) ==
  IF IsNum(a) /\ IsNum(b)
  THEN IF b.d # 1 THEN Raise("Unmodelled")
       ELSE IF b.n >= 0
            THEN NumV(a, b, IPow(a.n, b.n), IPow(a.d, b.n))
       ELSE IF a.n = 0 THEN Raise("ZeroDivisionError")
       ELSE FloatV(IPow(a.d, -b.n), IPow(a.n, -b.n))
  ELSE Raise("TypeError")

\* the host function a resolved operator stands for, applied
Apply(fn, a, b) ==
  CASE fn = "add" -> operator_add(a, b)
    [] fn = "sub" -> operator_sub(a, b)
    [] fn = "mul" -> operator_mul(a, b)
    [] fn = "truediv" -> operator_truediv(a, b)
    [] fn = "floordiv" -> operator_floordiv(a, b)
    [] fn = "mod" -> operator_mod(a, b)
    [] fn = "pow" -> operator_pow(a, b)

\* -1, 0, 1 as a < b, a = b, a > b for two values the host can order
Order(a, b) ==
  IF a.t = "str"
  THEN IF a.s = b.s THEN 0 ELSE IF StrLess(a.s, b.s) THEN -1 ELSE 1
  ELSE LET l == a.n * b.d
           r == b.n * a.d
       IN IF l = r THEN 0 ELSE IF l < r THEN -1 ELSE 1

Orderable(a, b) == (IsNum(a) /\ IsNum(b)) \/ (a.t = "str" /\ b.t = "str")

\* == of the host: never raises, values of unlike kinds are unequal
operator_eq(a, b) ==
  IF Orderable(a, b) THEN BoolV(Order(a, b) = 0)
  ELSE BoolV(a.t = "none" /\ b.t = "none")

operator_ne(a, b) == BoolV(operator_eq(a, b).n = 0)

operator_lt(a, b) ==
  IF Orderable(a, b) THEN BoolV(Order(a, b) < 0) ELSE Raise("TypeError")

operator_le(a, b) ==
  IF Orderable(a, b) THEN BoolV(Order(a, b) <= 0) ELSE Raise("TypeError")

operator_ge(a, b) ==
  IF Orderable(a, b) THEN BoolV(Order(a, b) >= 0) ELSE Raise("TypeError")

operator_gt(a, b) ==
  IF Orderable(a, b) THEN BoolV(Order(a, b) > 0) ELSE Raise("TypeError")

\* visit_Lt .. visit_Gt: the host comparison a CompareKind resolves to, applied
ApplyCmp(op, a, b) ==
  CASE op = "Lt" -> operator_lt(a, b)
    [] op = "Le" -> operator_le(a, b)
    [] op = "Eq" -> operator_eq(a, b)
    [] op = "Ne" -> operator_ne(a, b)
    [] op = "Ge" -> operator_ge(a, b)
    [] op = "Gt" -> operator_gt(a, b)

\* the host's truth value of a value, as `if v:` and `while v:` take it
Truthy(v) == IF v.t = "str" THEN v.s # <<>> ELSE v.n # 0

----------------------------------------------------------------------------
(* The syntax tree (module ast), as far as the interpreters visit it.      *)

Num(n) == [kind |-> "Num", n |-> n]
Str(str) == [kind |-> "Str", s |-> str]
Name(id) == [kind |-> "Name", id |-> id]
BinOp(left, op, right) ==
  [kind |-> "BinOp", left |-> left, op |-> op, right |-> right]
Compare(left, ops, comparators) ==
  [kind |-> "Compare", left |-> left, ops |-> ops, comparators |-> comparators]
Call(func, args) == [kind |-> "Call", func |-> func, args |-> args]
Assign(target, value) == [kind |-> "Assign", target |-> target, value |-> value]
AugAssign(target, op, value) ==
  [kind |-> "AugAssign", target |-> target, op |-> op, value |-> value]
If(test, body, orelse) ==
  [kind |-> "If", test |-> test, body |-> body, orelse |-> orelse]
While(test, body) == [kind |-> "While", test |-> test, body |-> body]
Expr(value) == [kind |-> "Expr", value |-> value]

OperatorKind == {"Add", "Sub", "Mult", "Div", "FloorDiv", "Mod", "Pow"}
CompareKind == {"Lt", "Le", "Eq", "Ne", "Ge", "Gt"}

\* the characters of an identifier, as the string the host makes of it
CodePoints(id) ==
  CASE id = "x" -> <<120>>
    [] id = "r" -> <<114>>
    [] id = "z" -> <<122>>
    [] id = "print" -> <<112, 114, 105, 110, 116>>
    [] id = "nope" -> <<110, 111, 112, 101>>

----------------------------------------------------------------------------
(* An interpreter instance while it visits one top-level statement:        *)
(*   strategy  the class of the instance                                   *)
(*   env       self.env, a function from the bound identifiers to values   *)
(*   ds        the draws randrange will still return, in order             *)
(*   starved   0, or the k of the first randrange(k) that found ds empty   *)
(*   diverged  a While passed MaxIter passes and its test is still true    *)
(*   trace     the visits, draws and prints so far, in order: records      *)
(*             [d, f, i] with d the depth of the visiting node, f the      *)
(*             field visited (or "randrange", "print") and i the index in  *)
(*             the field's list (or the draw, or the number of arguments)  *)
(*   v         the value the last visit returned, or the exception raised  *)
(*   fn        the host function the last operator node resolved to        *)
(*   calls     the host operators a BinOp or AugAssign applied, in order:  *)
(*             records [op, fn, a, b, res] of the operator node, the       *)
(*             function it resolved to, the operands and the result        *)

BUILTINS == {"print"}

Instance(strat, e, draws) ==
  [strategy |-> strat, env |-> e, ds |-> draws, starved |-> 0,
   diverged |-> FALSE, trace |-> <<>>, v |-> NoneV, fn |-> "", calls |-> <<>>]

Log(self, d, f, i) ==
  [self EXCEPT !.trace = Append(@, [d |-> d, f |-> f, i |-> i])]

Return(self, val) == [self EXCEPT !.v = val]

\* random.randrange(k): the next draw, left in v.n
randrange(self, d, k) ==
  IF self.ds = <<>>
  THEN [self EXCEPT !.starved = IF @ = 0 THEN k ELSE @, !.v = IntV(0)]
  ELSE Log([self EXCEPT !.ds = Tail(@), !.v = IntV(Head(self.ds))],
           d, "randrange", Head(self.ds))

\* op(*args): the resolved host function applied to the operands
Applied(self, op, a, b) ==
  LET res == Apply(self.fn, a, b)
  IN [self EXCEPT !.v = res,
                  !.calls = Append(@, [op |-> op, fn |-> self.fn, a |-> a,
                                       b |-> b, res |-> res])]

SetEnv(e, id, val) ==
  [i \in (DOMAIN e) \cup {id} |-> IF i = id THEN val ELSE e[i]]

RECURSIVE visit(_, _, _)
RECURSIVE visit_list(_, _, _, _, _, _)
RECURSIVE visit_body(_, _, _, _, _)
RECURSIVE while_loop(_, _, _, _)

visit_Num(self, node) == Return(self, IntV(node.n))

visit_Str(self, node) == Return(self, StrV(node.s))

\* visit_Name returning None for an identifier that is not bound
visit_Name_Mutant(self, node) ==
  IF node.id \in DOMAIN self.env
  THEN Return(self, self.env[node.id])
  ELSE Return(self, NoneV)

visit_Name(self, node) ==
  IF node.id \in DOMAIN self.env
  THEN Return(self, self.env[node.id])
  ELSE Return(self, Raise("UndefinedVariable"))

Stochastic_visit_Name(self, node, d) ==
  IF node.id \in DOMAIN self.env
  THEN LET s1 == randrange(self, d, 2)
       IN IF s1.v.n = 0 THEN Return(s1, self.env[node.id])
          ELSE Return(s1, StrV(CodePoints(node.id)))
  ELSE Return(self, Raise("UndefinedVariable"))

\* visit_Add .. visit_Pow: the host function of an operator node
visit_operator(self, op) ==
  [self EXCEPT !.fn = CASE op = "Add" -> "add"
                        [] op = "Sub" -> "sub"
                        [] op = "Mult" -> "mul"
                        [] op = "Div" -> "truediv"
                        [] op = "FloorDiv" -> "floordiv"
                        [] op = "Mod" -> "mod"
                        [] op = "Pow" -> "pow"]

Stochastic_visit_Mod(self, d) ==
  LET s1 == randrange(self, d, 2)
  IN [s1 EXCEPT !.fn = IF s1.v.n = 0 THEN "mod" ELSE "truediv"]

\* visit_op with the fault-injecting strategy replacing Pow as well
visit_op_Mutant(self, op, d) ==
  IF self.strategy = "stochastic" /\ op \in {"Mod", "Pow"}
  THEN Stochastic_visit_Mod(self, d)
  ELSE visit_operator(self, op)

\* self.visit(node.op): method resolution picks the subclass's visit_Mod
visit_op(self, op, d) ==
  IF self.strategy = "stochastic" /\ op = "Mod"
  THEN Stochastic_visit_Mod(self, d)
  ELSE visit_operator(self, op)

\* [self.visit(n) for n in nodes]: in order, stopping at the first exception;
\* the values are gathered in vals
visit_list(self, nodes, f, d, i, vals) ==
  IF i > Len(nodes) THEN [self |-> self, vals |-> vals]
  ELSE LET s1 == visit(Log(self, d, f, i), nodes[i], d + 1)
       IN IF IsError(s1.v) THEN [self |-> s1, vals |-> vals]
          ELSE visit_list(s1, nodes, f, d, i + 1, Append(vals, s1.v))

visit_Call(self, node, d) ==
  IF node.func \in BUILTINS
  THEN LET a == visit_list(self, node.args, "args", d, 1, <<>>)
       IN IF IsError(a.self.v) THEN a.self
          ELSE Return(Log(a.self, d, "print", Len(a.vals)), NoneV)
  ELSE IF node.func \in DOMAIN self.env
  THEN LET a == visit_list(self, node.args, "args", d, 1, <<>>)
       IN IF IsError(a.self.v) THEN a.self
          ELSE Return(a.self, Raise("TypeError"))
  ELSE Return(self, Raise("UndefinedFunction"))

\* visit_Assign replacing the environment by the one binding
visit_Assign_Mutant(self, node, d) ==
  LET s1 == visit(Log(self, d, "value", 0), node.value, d + 1)
  IN IF IsError(s1.v) THEN s1
     ELSE Return([s1 EXCEPT !.env = [i \in {node.target} |-> s1.v]], NoneV)

visit_Assign(self, node, d) ==
  LET s1 == visit(Log(self, d, "value", 0), node.value, d + 1)
  IN IF IsError(s1.v) THEN s1
     ELSE Return([s1 EXCEPT !.env = SetEnv(@, node.target, s1.v)], NoneV)

\* visit_AugAssign applying the operator to (value, target)
visit_AugAssign_Mutant(self, node, d) ==
  LET s1 == visit_op(Log(self, d, "op", 0), node.op, d + 1)
      s2 == visit(Log(s1, d, "target", 0), Name(node.target), d + 1)
      s3 == visit(Log(s2, d, "value", 0), node.value, d + 1)
      s4 == Applied([s3 EXCEPT !.fn = s1.fn], node.op, s3.v, s2.v)
  IN IF IsError(s2.v) THEN s2
     ELSE IF IsError(s3.v) THEN s3
     ELSE IF IsError(s4.v) THEN s4
     ELSE Return([s4 EXCEPT !.env = SetEnv(@, node.target, s4.v)], NoneV)

visit_AugAssign(self, node, d) ==
  LET s1 == visit_op(Log(self, d, "op", 0), node.op, d + 1)
      s2 == visit(Log(s1, d, "target", 0), Name(node.target), d + 1)
      s3 == visit(Log(s2, d, "value", 0), node.value, d + 1)
      s4 == Applied([s3 EXCEPT !.fn = s1.fn], node.op, s2.v, s3.v)
  IN IF IsError(s2.v) THEN s2
     ELSE IF IsError(s3.v) THEN s3
     ELSE IF IsError(s4.v) THEN s4
     ELSE Return([s4 EXCEPT !.env = SetEnv(@, node.target, s4.v)], NoneV)

\* the loop of visit_Compare over the pairs of values, from pair i on
RECURSIVE compare_pairs(_, _, _)
compare_pairs(ops, values, i) ==
  IF i > Len(ops) THEN BoolV(TRUE)
  ELSE LET c == ApplyCmp(ops[i], values[i], values[i + 1])
       IN IF IsError(c) THEN c
          ELSE IF ~Truthy(c) THEN BoolV(FALSE)
          ELSE compare_pairs(ops, values, i + 1)

\* the visits of node.ops resolve host functions and have no effect
RECURSIVE log_ops(_, _, _, _)
log_ops(self, ops, d, i) ==
  IF i > Len(ops) THEN self ELSE log_ops(Log(self, d, "ops", i), ops, d, i + 1)

\* visit_Compare evaluating a comparator only when the pairs before it hold
RECURSIVE lazy_pairs(_, _, _, _, _)
lazy_pairs(self, node, d, i, left) ==
  IF i > Len(node.ops) THEN Return(self, BoolV(TRUE))
  ELSE LET s1 == visit(Log(self, d, "comparators", i), node.comparators[i], d + 1)
           c == ApplyCmp(node.ops[i], left, s1.v)
       IN IF IsError(s1.v) THEN s1
          ELSE IF IsError(c) THEN Return(s1, c)
          ELSE IF ~Truthy(c) THEN Return(s1, BoolV(FALSE))
          ELSE lazy_pairs(s1, node, d, i + 1, s1.v)

visit_Compare_Mutant(self, node, d) ==
  LET s0 == log_ops(self, node.ops, d, 1)
      s1 == visit(Log(s0, d, "left", 0), node.left, d + 1)
  IN IF IsError(s1.v) THEN s1 ELSE lazy_pairs(s1, node, d, 1, s1.v)

visit_Compare(self, node, d) ==
  LET s0 == log_ops(self, node.ops, d, 1)
      s1 == visit(Log(s0, d, "left", 0), node.left, d + 1)
      a == visit_list(s1, node.comparators, "comparators", d, 1, <<s1.v>>)
  IN IF IsError(s1.v) THEN s1
     ELSE IF IsError(a.self.v) THEN a.self
     ELSE Return(a.self, compare_pairs(node.ops, a.vals, 1))

visit_BinOp(self, node, d) ==
  LET s1 == visit(Log(self, d, "left", 0), node.left, d + 1)
      s2 == visit(Log(s1, d, "right", 0), node.right, d + 1)
      s3 == visit_op(Log(s2, d, "op", 0), node.op, d + 1)
  IN IF IsError(s1.v) THEN s1
     ELSE IF IsError(s2.v) THEN s2
     ELSE Applied(s3, node.op, s1.v, s2.v)

\* for statement in stmts: self.visit(statement)
visit_body(self, stmts, f, d, i) ==
  IF i > Len(stmts) THEN Return(self, NoneV)
  ELSE LET s1 == visit(Log(self, d, f, i), stmts[i], d + 1)
       IN IF IsError(s1.v) THEN s1 ELSE visit_body(s1, stmts, f, d, i + 1)

\* visit_If running orelse after body
visit_If_Mutant(self, node, d) ==
  LET s1 == visit(Log(self, d, "test", 0), node.test, d + 1)
      b == visit_body(s1, node.body, "body", d, 1)
  IN IF IsError(s1.v) THEN s1
     ELSE IF Truthy(s1.v)
     THEN IF IsError(b.v) THEN b ELSE visit_body(b, node.orelse, "orelse", d, 1)
     ELSE visit_body(s1, node.orelse, "orelse", d, 1)

visit_If(self, node, d) ==
  LET s1 == visit(Log(self, d, "test", 0), node.test, d + 1)
  IN IF IsError(s1.v) THEN s1
     ELSE IF Truthy(s1.v) THEN visit_body(s1, node.body, "body", d, 1)
     ELSE visit_body(s1, node.orelse, "orelse", d, 1)

\* Stochastic_visit_If with the second interpretation not swapped
Stochastic_visit_If_Mutant(self, node, d) ==
  LET s0 == randrange(self, d, 2)
      p0 == Log(s0, d, IF s0.v.n = 0 THEN "Correct interpretation"
                       ELSE "Incorrect interpretation", 0)
      s1 == visit(Log(p0, d, "test", 0), node.test, d + 1)
  IN IF IsError(s1.v) THEN s1
     ELSE IF Truthy(s1.v) THEN visit_body(s1, node.body, "body", d, 1)
     ELSE visit_body(s1, node.orelse, "orelse", d, 1)

Stochastic_visit_If(self, node, d) ==
  LET s0 == randrange(self, d, 2)
      p0 == Log(s0, d, IF s0.v.n = 0 THEN "Correct interpretation"
                       ELSE "Incorrect interpretation", 0)
      s1 == visit(Log(p0, d, "test", 0), node.test, d + 1)
  IN IF IsError(s1.v) THEN s1
     ELSE IF s0.v.n = 0
     THEN IF Truthy(s1.v) THEN visit_body(s1, node.body, "body", d, 1)
          ELSE visit_body(s1, node.orelse, "orelse", d, 1)
     ELSE IF ~Truthy(s1.v) THEN visit_body(s1, node.body, "body", d, 1)
          ELSE visit_body(s1, node.orelse, "orelse", d, 1)

\* `while test_result:` with the test's outcome in self.v
while_loop(self, node, d, fuel) ==
  IF IsError(self.v) THEN self
  ELSE IF ~Truthy(self.v) THEN Return(self, NoneV)
  ELSE IF fuel = 0 THEN [self EXCEPT !.diverged = TRUE]
  ELSE LET b == visit_body(self, node.body, "body", d, 1)
       IN IF IsError(b.v) THEN b
          ELSE while_loop(visit(Log(b, d, "test", 0), node.test, d + 1),
                          node, d, fuel - 1)

visit_While(self, node, d) ==
  while_loop(visit(Log(self, d, "test", 0), node.test, d + 1), node, d, MaxIter)

\* NodeVisitor.generic_visit on an expression statement: visits the
\* expression and returns None
visit_Expr(self, node, d) ==
  LET s1 == visit(Log(self, d, "value", 0), node.value, d + 1)
  IN IF IsError(s1.v) THEN s1 ELSE Return(s1, NoneV)

\* a host operator applied inside a rewrite: an exception of an operand wins
Arith(fn, a, b) ==
  IF IsError(a) THEN a ELSE IF IsError(b) THEN b ELSE Apply(fn, a, b)

IsNumNode(node) == node.kind = "Num"
IsBinOpOf(node, op) ==
  /\ node.kind = "BinOp"
  /\ node.op = op
  /\ IsNumNode(node.left)
  /\ IsNumNode(node.right)

\* the leaf self.visit(leaf) of a matched pattern, logged under its path
Leaf(self, d, path, leaf) == visit(Log(self, d, path, 0), leaf, d + 1)

\* BindingInterpreter without its override of visit_BinOp
Binding_visit_BinOp_Mutant(self, node, d) == visit_BinOp(self, node, d)

Binding_visit_BinOp(self, node, d) ==
  IF node.op = "Add" /\ IsNumNode(node.right) /\ IsBinOpOf(node.left, "Mult")
  THEN LET p == Log(self, d, "first case mult/add", 0)
           ll == Leaf(p, d, "left.left", node.left.left)
           lr == Leaf(ll, d, "left.right", node.left.right)
           r == Leaf(lr, d, "right", node.right)
       IN Return(r, Arith("mul", ll.v, Arith("add", lr.v, r.v)))
  ELSE IF node.op = "Add" /\ IsNumNode(node.left) /\ IsBinOpOf(node.right, "Mult")
  THEN LET p == Log(self, d, "second case mult/add", 0)
           l == Leaf(p, d, "left", node.left)
           rl == Leaf(l, d, "right.left", node.right.left)
           rr == Leaf(rl, d, "right.right", node.right.right)
       IN Return(rr, Arith("mul", Arith("add", l.v, rl.v), rr.v))
  ELSE IF node.op = "Sub" /\ IsNumNode(node.right) /\ IsBinOpOf(node.left, "Mult")
  THEN LET p == Log(self, d, "first case mult/sub", 0)
           ll == Leaf(p, d, "left.left", node.left.left)
           lr == Leaf(ll, d, "left.right", node.left.right)
           r == Leaf(lr, d, "right", node.right)
       IN Return(r, Arith("mul", ll.v, Arith("sub", lr.v, r.v)))
  ELSE IF node.op = "Sub" /\ IsNumNode(node.left) /\ IsBinOpOf(node.right, "Mult")
  THEN LET p == Log(self, d, "second case mult/sub", 0)
           l == Leaf(p, d, "left", node.left)
           rl == Leaf(l, d, "right.left", node.right.left)
           rr == Leaf(rl, d, "right.right", node.right.right)
       IN Return(rr, Arith("mul", Arith("sub", l.v, rl.v), rr.v))
  ELSE IF node.op = "Add" /\ IsNumNode(node.right) /\ IsBinOpOf(node.left, "Div")
  THEN LET p == Log(self, d, "first case division", 0)
           ll == Leaf(p, d, "left.left", node.left.left)
           r == Leaf(ll, d, "right", node.right)
           lr == Leaf(r, d, "left.right", node.left.right)
       IN Return(lr, Arith("truediv", ll.v, Arith("add", r.v, lr.v)))
  ELSE IF node.op = "Add" /\ IsNumNode(node.left) /\ IsBinOpOf(node.right, "Div")
  THEN LET p == Log(self, d, "second case division", 0)
           rl == Leaf(p, d, "right.left", node.right.left)
           rr == Leaf(rl, d, "right.right", node.right.right)
           l == Leaf(rr, d, "left", node.left)
       IN Return(l, Arith("truediv", Arith("add", l.v, rl.v), rr.v))
  ELSE IF /\ node.op = "Add"
          /\ node.left.kind = "BinOp"
          /\ IsNumNode(node.right)
          /\ node.left.op = "Add"
          /\ IsNumNode(node.left.left)
          /\ IsBinOpOf(node.left.right, "Div")
  THEN LET p == Log(self, d, "4 term expression", 0)
           r == Leaf(p, d, "right", node.right)
           ll == Leaf(r, d, "left.left", node.left.left)
           lrl == Leaf(ll, d, "left.right.left", node.left.right.left)
           lrr == Leaf(lrl, d, "left.right.right", node.left.right.right)
           s1 == randrange(lrr, d, 3)
       IN IF s1.v.n = 0
          THEN Return(s1, Arith("add",
                 Arith("truediv", Arith("add", ll.v, lrl.v), lrr.v), r.v))
          ELSE IF s1.v.n = 1
          THEN Return(s1, Arith("truediv",
                 Arith("add", ll.v, lrl.v), Arith("add", lrr.v, r.v)))
          ELSE Return(s1, Arith("add", ll.v,
                 Arith("truediv", lrl.v, Arith("add", lrr.v, r.v))))
  ELSE visit_BinOp(self, node, d)

\* NodeVisitor.visit: the visit_<kind> method of the instance's class
visit(self, node, d) ==
  CASE node.kind = "Num" -> visit_Num(self, node)
    [] node.kind = "Str" -> visit_Str(self, node)
    [] node.kind = "Name" ->
         IF self.strategy = "stochastic"
         THEN Stochastic_visit_Name(self, node, d)
         ELSE visit_Name(self, node)
    [] node.kind = "BinOp" ->
         IF self.strategy = "binding"
         THEN Binding_visit_BinOp(self, node, d)
         ELSE visit_BinOp(self, node, d)
    [] node.kind = "Compare" -> visit_Compare(self, node, d)
    [] node.kind = "Call" -> visit_Call(self, node, d)
    [] node.kind = "Assign" -> visit_Assign(self, node, d)
    [] node.kind = "AugAssign" -> visit_AugAssign(self, node, d)
    [] node.kind = "If" ->
         IF self.strategy = "stochastic"
         THEN Stochastic_visit_If(self, node, d)
         ELSE visit_If(self, node, d)
    [] node.kind = "While" -> visit_While(self, node, d)
    [] node.kind = "Expr" -> visit_Expr(self, node, d)

\* every way one top-level visit of node can end: the run with the draws
\* `draws`, extended by each value the next randrange can return whenever the
\* draws run out, up to MaxDraws draws
RECURSIVE Outcomes(_, _, _, _)
Outcomes(strat, e, node, draws) ==
  LET r == visit(Instance(strat, e, draws), node, 0)
  IN IF r.starved = 0
     THEN IF r.diverged THEN {} ELSE {[r EXCEPT !.ds = draws]}
     ELSE IF Len(draws) >= MaxDraws THEN {}
     ELSE UNION {Outcomes(strat, e, node, Append(draws, k)) :
                 k \in 0..(r.starved - 1)}

----------------------------------------------------------------------------
(* The programs the model runs: the statements a run draws from.           *)

Strategies == {"correct", "stochastic", "binding"}
Ids == {"x", "r"}

ok == <<111, 107>>
bad == <<98, 97, 100>>

Literals == {Num(0), Num(1), Num(2), Str(ok), Str(bad)}
AugValues == {Num(1), Num(2), Name("r")}
XLt2 == Compare(Name("x"), <<"Lt">>, <<Num(2)>>)
FourTerm == BinOp(BinOp(Num(1), "Add", BinOp(Num(0), "Div", Num(1))), "Add", Num(1))

AssignStmts ==
  {Assign("x", v) :
     v \in Literals
       \cup {Name("x"), Name("r"), Name("z"), XLt2, FourTerm,
             Call("print", <<Name("x")>>), Call("nope", <<>>)}
       \cup {BinOp(Name("x"), op, v) : op \in OperatorKind, v \in AugValues}
       \cup {BinOp(Num(2), op, Num(1)) : op \in OperatorKind}
       \cup {Compare(Num(1), <<"Lt", "Eq">>, <<Num(2), Num(2)>>)}}
    \cup {Assign("r", v) : v \in {Str(ok), Str(bad), Name("r"), Name("z")}}

AugAssignStmts ==
  {AugAssign("x", op, v) : op \in OperatorKind, v \in AugValues}
    \cup {AugAssign("r", op, Num(1)) : op \in OperatorKind}

Tests == {Num(0), Num(1), Str(<<>>), Name("x"), Name("z"), XLt2}

\* the body and the orelse of the If statements
Branches ==
  { << <<Assign("r", Str(ok))>>, <<Assign("r", Str(bad))>> >>,
    << <<Assign("x", Num(1))>>, <<Assign("x", Num(2))>> >>,
    << <<Assign("x", Num(1)), AugAssign("x", "Add", Num(1))>>,
       <<AugAssign("x", "Sub", Num(1)), Assign("r", Str(bad))>> >>,
    << <<Assign("x", Num(2)), Expr(Name("z")), Assign("r", Str(ok))>>,
       <<Expr(Call("nope", <<>>)), Assign("x", Num(0))>> >>,
    << <<If(Name("r"), <<Assign("x", Num(0))>>, <<Assign("x", Num(1))>>)>>,
       <<>> >> }

IfStmts == {If(t, b[1], b[2]) : t \in Tests, b \in Branches}

WhileStmts ==
  {While(t, b) :
     t \in Tests \ {Num(1)},
     b \in { <<AugAssign("x", "Add", Num(1))>>,
             <<AugAssign("x", "Sub", Num(1))>>,
             <<Assign("r", Str(ok)), AugAssign("x", "Add", Num(1))>>,
             <<Assign("x", Num(0))>>,
             <<Expr(Name("z")), Assign("x", Num(0))>> }}

\* expressions visited on their own, for their value
ExprNodes ==
  {Name("x"), Name("r"), Name("z"), XLt2,
   Call("print", <<>>), Call("print", <<Num(1), Str(ok)>>),
   Call("print", <<Name("x"), Name("z")>>),
   Call("nope", <<>>), Call("nope", <<Name("z")>>),
   Call("x", <<>>), Call("x", <<Name("z")>>),
   BinOp(Name("x"), "Mod", Num(2))}
    \cup {BinOp(p[1], op, p[2]) :
            op \in OperatorKind,
            p \in { <<Str(ok), Str(bad)>>, <<Str(ok), Num(2)>>,
                    <<Num(2), Str(ok)>>, <<Str(bad), Name("r")>>,
                    <<XLt2, Str(ok)>>, <<Str(ok), Call("print", <<>>)>> }}

----------------------------------------------------------------------------
(* The run: PyliteInterpreter.run visits the statements of the module one  *)
(* after the other; an exception leaves the run, and no statement follows. *)

NoLast ==
  [stmt |-> [kind |-> "None"], ds |-> <<>>, trace |-> <<>>, v |-> NoneV,
   calls |-> <<>>]

EmptyEnv == [i \in {} |-> NoneV]

InRange(val) ==
  /\ Abs(val.n) <= MaxAbs
  /\ val.d <= MaxAbs
  /\ Len(val.s) <= MaxLen

Init ==
  /\ strategy \in Strategies
  /\ env = EmptyEnv
  /\ status = "ok"
  /\ last = NoLast
  /\ pc = "idle"

\* self.visit(node) of the next top-level statement, to its return or raise
Step(node) ==
  /\ pc = "idle"
  /\ status = "ok"
  /\ \E r \in Outcomes(strategy, env, node, <<>>) :
       /\ r.v.t # "Unmodelled"
       /\ \A i \in DOMAIN r.env : InRange(r.env[i])
       /\ env' = r.env
       /\ status' = IF IsError(r.v) THEN r.v.t ELSE "ok"
       /\ last' = [stmt |-> node, ds |-> r.ds, trace |-> r.trace, v |-> r.v,
                   calls |-> r.calls]
  /\ pc' = "visited"
  /\ UNCHANGED strategy

Visit_Assign ==
  /\ pc = "idle"
  /\ \E node \in AssignStmts : Step(node)
Visit_AugAssign ==
  /\ pc = "idle"
  /\ \E node \in AugAssignStmts : Step(node)
Visit_If ==
  /\ pc = "idle"
  /\ \E node \in IfStmts : Step(node)
Visit_While ==
  /\ pc = "idle"
  /\ \E node \in WhileStmts : Step(node)
Visit_Expr ==
  /\ pc = "idle"
  /\ \E node \in ExprNodes : Step(node)

\* generic_visit of the module goes on to the next statement
Advance ==
  /\ pc = "visited"
  /\ status = "ok"
  /\ pc' = "idle"
  /\ last' = NoLast
  /\ UNCHANGED <<strategy, env, status>>

Next ==
  \/ Visit_Assign
  \/ Visit_AugAssign
  \/ Visit_If
  \/ Visit_While
  \/ Visit_Expr
  \/ Advance

Spec == Init /\ [][Next]_vars

----------------------------------------------------------------------------
(* Expressions evaluated on their own, by an instance just constructed.    *)

Leaves == 0..MaxLeaf
Operands == (-MaxLeaf)..MaxLeaf

ArithNodes ==
  {BinOp(Num(a), op, Num(b)) : a \in Operands, b \in Operands, op \in OperatorKind}
    \cup {BinOp(Num(6), "Mult", Num(7))}

\* the shapes BindingInterpreter.visit_BinOp tells apart
MultAdd1(a, b, c) == BinOp(BinOp(Num(a), "Mult", Num(b)), "Add", Num(c))
MultAdd2(a, b, c) == BinOp(Num(a), "Add", BinOp(Num(b), "Mult", Num(c)))
MultSub1(a, b, c) == BinOp(BinOp(Num(a), "Mult", Num(b)), "Sub", Num(c))
MultSub2(a, b, c) == BinOp(Num(a), "Sub", BinOp(Num(b), "Mult", Num(c)))
DivAdd1(a, b, c) == BinOp(BinOp(Num(a), "Div", Num(b)), "Add", Num(c))
DivAdd2(a, b, c) == BinOp(Num(a), "Add", BinOp(Num(b), "Div", Num(c)))
FourTermOf(a, b, c, e) ==
  BinOp(BinOp(Num(a), "Add", BinOp(Num(b), "Div", Num(c))), "Add", Num(e))

\* shapes that none of the patterns takes
AddMult(a, b, c) == BinOp(BinOp(Num(a), "Add", Num(b)), "Mult", Num(c))
DivSub(a, b, c) == BinOp(BinOp(Num(a), "Div", Num(b)), "Sub", Num(c))
MultAddAdd(a, b, c, e) ==
  BinOp(BinOp(Num(a), "Add", BinOp(Num(b), "Mult", Num(c))), "Add", Num(e))

PatternNodes ==
  UNION {{MultAdd1(a, b, c), MultAdd2(a, b, c), MultSub1(a, b, c),
          MultSub2(a, b, c), DivAdd1(a, b, c), DivAdd2(a, b, c),
          AddMult(a, b, c), DivSub(a, b, c)} :
         a \in Leaves, b \in Leaves, c \in Leaves}
    \cup {FourTermOf(a, b, c, e) :
            a \in Leaves, b \in Leaves, c \in Leaves, e \in Leaves}
    \cup {MultAddAdd(a, b, c, e) :
            a \in 1..2, b \in 1..2, c \in 1..2, e \in 1..2}

CmpOperands == {Num(1), Num(2), Num(3), Name("z"), Str(ok)}

CompareNodes ==
  {Compare(l, <<o>>, <<c>>) : l \in CmpOperands, o \in CompareKind, c \in CmpOperands}
    \cup {Compare(l, <<o1, o2>>, <<c1, c2>>) :
            l \in CmpOperands, o1 \in CompareKind, o2 \in CompareKind,
            c1 \in CmpOperands, c2 \in CmpOperands}

Visit_Arith ==
  /\ pc = "idle"
  /\ \E node \in ArithNodes : Step(node)

Visit_Pattern ==
  /\ pc = "idle"
  /\ \E node \in PatternNodes : Step(node)

Visit_Compare ==
  /\ pc = "idle"
  /\ \E node \in CompareNodes : Step(node)

NextExpr ==
  \/ Visit_Arith
  \/ Visit_Pattern
  \/ Visit_Compare
  \/ Advance

SpecExpr == Init /\ [][NextExpr]_vars

----------------------------------------------------------------------------
(* Properties.  A step that visits a statement leads from an idle state    *)
(* (env, the environment before) to a visited state (env', status' and     *)
(* last', the statement with its draws, trace and value).                  *)

Visits(kind) == pc' = "visited" /\ last'.stmt.kind = kind

\* the events of a trace logged by the top-level node itself
Top(trace) == SelectSeq(trace, LAMBDA e : e.d = 0)
TopOf(trace, fields) == SelectSeq(trace, LAMBDA e : e.d = 0 /\ e.f \in fields)

Event(f, i) == [d |-> 0, f |-> f, i |-> i]

\* truthiness as the specification words it
SpecTruthy(val) ==
  \/ val.t \in {"int", "float", "bool"} /\ val.n # 0
  \/ val.t = "str" /\ Len(val.s) > 0

\* evs is the in-order run of the statements 1..k of the list f, k <= n, and
\* of all n of them when the run raised nothing
IsRun(evs, f, n, complete) ==
  /\ Len(evs) <= n
  /\ complete => Len(evs) = n
  /\ \A i \in 1..Len(evs) : evs[i] = Event(f, i)

Unchanged(e1, e2, ids) ==
  \A y \in ids : /\ (y \in DOMAIN e1) <=> (y \in DOMAIN e2)
                 /\ y \in DOMAIN e1 => e1[y] = e2[y]

\* the value a literal node denotes
Denotes(node) == IF node.kind = "Num" THEN IntV(node.n) ELSE StrV(node.s)

\* C1: under the deterministic strategy, after Assign(x, v) of a literal v in
\* any reachable environment, the run goes on, x is bound to exactly v, every
\* other identifier is bound as before, and Name(x) evaluates to v; and an
\* evaluation of Name(x) returns the binding the environment holds, which the
\* step to the next statement leaves alone.
C1_AssignThenName ==
  [][ /\ (strategy = "correct" /\ Visits("Assign")
            /\ last'.stmt.value.kind \in {"Num", "Str"})
         => LET x == last'.stmt.target
                v == Denotes(last'.stmt.value)
            IN /\ status' = "ok"
               /\ x \in DOMAIN env'
               /\ env'[x] = v
               /\ Unchanged(env, env', Ids \ {x})
               /\ visit(Instance("correct", env', <<>>), Name(x), 0).v = v
      /\ (strategy = "correct" /\ Visits("Name")
            /\ last'.stmt.id \in DOMAIN env)
         => /\ last'.v = env[last'.stmt.id]
            /\ env' = env
            /\ status' = "ok"
      /\ (pc = "visited" /\ pc' = "idle") => env' = env
    ]_vars

C1_Witness ==
  /\ strategy = "correct"
  /\ pc = "visited"
  /\ last.stmt = Assign("x", Num(2))
  /\ "r" \in DOMAIN env
  /\ env["r"] = StrV(ok)
  /\ env["x"] = IntV(2)

\* the value of the test of the statement just visited by the deterministic
\* strategy, from the environment before
TestValue == visit(Instance("correct", env, <<>>), last'.stmt.test, 1).v

\* C2: under the deterministic strategy an If evaluates its test once, first,
\* and then runs in order the statements of body when the test value is
\* truthy (nonzero number, non-empty string) and those of orelse otherwise,
\* never of both; a While whose test is falsy at first runs no body statement
\* and leaves the environment unchanged, and a While evaluates its test again
\* only after a complete pass over body.
C2_IfWhileControl ==
  [][ /\ (strategy = "correct" /\ Visits("If"))
         => LET node == last'.stmt
                evs == Top(last'.trace)
            IN /\ Len(evs) >= 1
               /\ evs[1] = Event("test", 0)
               /\ Len(TopOf(last'.trace, {"test"})) = 1
               /\ IsError(TestValue) => Len(evs) = 1 /\ status' = TestValue.t
               /\ (~IsError(TestValue) /\ SpecTruthy(TestValue))
                    => IsRun(Tail(evs), "body", Len(node.body), status' = "ok")
               /\ (~IsError(TestValue) /\ ~SpecTruthy(TestValue))
                    => IsRun(Tail(evs), "orelse", Len(node.orelse), status' = "ok")
      /\ (strategy = "correct" /\ Visits("While"))
         => LET node == last'.stmt
                evs == Top(last'.trace)
                n == Len(node.body)
            IN /\ Len(evs) >= 1
               /\ evs[1] = Event("test", 0)
               /\ (~IsError(TestValue) /\ ~SpecTruthy(TestValue))
                    => Len(evs) = 1 /\ env' = env /\ status' = "ok"
               /\ (~IsError(TestValue) /\ SpecTruthy(TestValue))
                    => Len(evs) > 1
               /\ \A j \in 2..Len(evs) :
                    /\ evs[j].f \in {"test", "body"}
                    /\ evs[j].f = "test" => evs[j - 1] = Event("body", n)
                    /\ (evs[j].f = "body" /\ evs[j].i = 1)
                         => evs[j - 1] = Event("test", 0)
                    /\ (evs[j].f = "body" /\ evs[j].i > 1)
                         => evs[j - 1] = Event("body", evs[j].i - 1)
    ]_vars

C2_Witness ==
  /\ strategy = "correct"
  /\ pc = "visited"
  /\ last.stmt = While(XLt2, <<Assign("r", Str(ok)), AugAssign("x", "Add", Num(1))>>)
  /\ Len(TopOf(last.trace, {"test"})) = 3
  /\ env["x"] = IntV(2)
  /\ status = "ok"

\* the run of the deterministic strategy on node from the environment before
\* ends with the environment and the outcome of the step just taken
SameAsDeterministic(node) ==
  \E o \in Outcomes("correct", env, node, <<>>) :
    /\ o.env = env'
    /\ status' = IF IsError(o.v) THEN o.v.t ELSE "ok"

\* C4: under the deterministic strategy AugAssign(x, op, v) ends with the
\* environment (and the outcome: done, or the exception raised) with which
\* Assign(x, BinaryOp(op, Name(x), v)) ends from the same environment.
C4_AugAssignEquivalence ==
  [][ (strategy = "correct" /\ Visits("AugAssign"))
        => LET node == last'.stmt
           IN SameAsDeterministic(
                Assign(node.target, BinOp(Name(node.target), node.op, node.value)))
    ]_vars

C4_Witness ==
  /\ strategy = "correct"
  /\ pc = "visited"
  /\ last.stmt = AugAssign("x", "FloorDiv", Num(2))
  /\ status = "ok"
  /\ env["x"] = IntV(-1)

\* the statement i of the list f of node raises whatever the environment:
\* it reads the identifier z, which no statement binds, or calls nope
Raises(stmt) ==
  CASE stmt = Expr(Name("z")) -> "UndefinedVariable"
    [] stmt = Expr(Call("nope", <<>>)) -> "UndefinedFunction"
    [] OTHER -> ""

\* C5: in every strategy Name(z) and AugAssign with target z, z unbound,
\* raise UndefinedVariable, and Call(f, args) with f neither a builtin nor
\* bound raises UndefinedFunction; the environment stays as it was, the run
\* ends there (no step follows a raised exception), and inside a body no
\* statement after the raising one is visited.
C5_UndefinedAccess ==
  [][ /\ (Visits("Name") /\ last'.stmt.id \notin DOMAIN env)
         => status' = "UndefinedVariable" /\ env' = env
      /\ (Visits("AugAssign") /\ last'.stmt.target \notin DOMAIN env)
         => status' = "UndefinedVariable" /\ env' = env
      /\ (Visits("Call") /\ last'.stmt.func \notin BUILTINS \cup DOMAIN env)
         => status' = "UndefinedFunction" /\ env' = env
      /\ (pc' = "visited" /\ last'.stmt.kind \in {"If", "While"})
         => LET node == last'.stmt
                evs == TopOf(last'.trace, {"body", "orelse"})
            IN \A j \in 1..Len(evs) :
                 LET stmt == IF evs[j].f = "body" THEN node.body[evs[j].i]
                             ELSE node.orelse[evs[j].i]
                 IN Raises(stmt) # ""
                      => /\ j = Len(evs)
                         /\ status' = Raises(stmt)
                         /\ Top(last'.trace)[Len(Top(last'.trace))] = evs[j]
      /\ status # "ok" => UNCHANGED vars
    ]_vars

C5_Witness ==
  /\ strategy = "stochastic"
  /\ pc = "visited"
  /\ last.stmt = AugAssign("r", "Mod", Num(1))
  /\ status = "UndefinedVariable"
  /\ "x" \in DOMAIN env
  /\ "r" \notin DOMAIN env

TheIf == If(Num(1), <<Assign("r", Str(ok))>>, <<Assign("r", Str(bad))>>)

\* C7: under the fault-injecting strategy If(1, [r = "ok"], [r = "bad"])
\* always ends normally with r bound to "ok" or to "bad" and nothing else
\* changed, and from every environment both are possible; every If draws
\* once and evaluates its test once, and then runs exactly one of body and
\* orelse: body when the test is truthy and the draw is 0 (correct) or the
\* test is falsy and the draw is 1 (incorrect).
C7_FaultInjectedIf ==
  [][ /\ (strategy = "stochastic" /\ pc' = "visited" /\ last'.stmt = TheIf)
         => /\ status' = "ok"
            /\ "r" \in DOMAIN env'
            /\ env'["r"] \in {StrV(ok), StrV(bad)}
            /\ Unchanged(env, env', Ids \ {"r"})
      /\ (strategy = "stochastic" /\ pc = "idle" /\ status = "ok")
         => {o.env["r"] : o \in Outcomes("stochastic", env, TheIf, <<>>)}
              = {StrV(ok), StrV(bad)}
      /\ (strategy = "stochastic" /\ Visits("If"))
         => LET node == last'.stmt
                draw == last'.ds[1]
                tv == visit(Instance("stochastic", env, Tail(last'.ds)),
                            node.test, 1).v
                br == TopOf(last'.trace, {"body", "orelse"})
            IN /\ Len(TopOf(last'.trace, {"randrange"})) = 1
               /\ TopOf(last'.trace, {"randrange"})[1].i = draw
               /\ Len(TopOf(last'.trace, {"test"})) = 1
               /\ IsError(tv) => br = <<>> /\ status' = tv.t
               /\ ~IsError(tv)
                    => IF \/ SpecTruthy(tv) /\ draw = 0
                          \/ ~SpecTruthy(tv) /\ draw = 1
                       THEN IsRun(br, "body", Len(node.body), status' = "ok")
                       ELSE IsRun(br, "orelse", Len(node.orelse), status' = "ok")
    ]_vars

C7_Witness ==
  /\ strategy = "stochastic"
  /\ pc = "visited"
  /\ last.stmt = TheIf
  /\ last.ds = <<1>>
  /\ env["r"] = StrV(bad)

\* the kinds of the nodes of a tree, with "Mod" for a Mod operator in it
RECURSIVE Features(_)
RECURSIVE FeaturesOf(_)
FeaturesOf(nodes) == UNION {Features(nodes[i]) : i \in 1..Len(nodes)}
Features(node) ==
  {node.kind} \cup
  CASE node.kind = "BinOp" ->
         (IF node.op = "Mod" THEN {"Mod"} ELSE {})
           \cup Features(node.left) \cup Features(node.right)
    [] node.kind = "Compare" ->
         Features(node.left) \cup FeaturesOf(node.comparators)
    [] node.kind = "Call" -> FeaturesOf(node.args)
    [] node.kind = "Assign" -> Features(node.value)
    [] node.kind = "AugAssign" ->
         (IF node.op = "Mod" THEN {"Mod"} ELSE {}) \cup Features(node.value)
    [] node.kind = "If" ->
         Features(node.test) \cup FeaturesOf(node.body) \cup FeaturesOf(node.orelse)
    [] node.kind = "While" -> Features(node.test) \cup FeaturesOf(node.body)
    [] node.kind = "Expr" -> Features(node.value)
    [] OTHER -> {}

\* C8 as stated: under the fault-injecting strategy a statement with no Name
\* expression, no Mod operator and no If ends with the environment and the
\* outcome of the deterministic strategy, whatever the draws.
C8_Original ==
  [][ (strategy = "stochastic" /\ pc' = "visited"
         /\ Features(last'.stmt) \cap {"Name", "Mod", "If"} = {})
        => SameAsDeterministic(last'.stmt)
    ]_vars

\* C8 amended: the same of a statement that holds no AugAssign either, whose
\* target is read through the fault-injecting Name resolution; AugAssign(x,
\* Add, 1) with x bound to 0 leaves x = 1 when that draw is 0 and raises
\* TypeError, the environment unchanged, when it is 1.
C8_FaultInjectionElsewhere ==
  [][ /\ (strategy = "stochastic" /\ pc' = "visited"
            /\ Features(last'.stmt) \cap {"Name", "Mod", "If", "AugAssign"} = {})
         => SameAsDeterministic(last'.stmt)
      /\ (strategy = "stochastic" /\ pc' = "visited"
            /\ last'.stmt = AugAssign("x", "Add", Num(1))
            /\ "x" \in DOMAIN env /\ env["x"] = IntV(0))
         => IF last'.ds = <<0>>
            THEN status' = "ok" /\ env' = SetEnv(env, "x", IntV(1))
            ELSE last'.ds = <<1>> /\ status' = "TypeError" /\ env' = env
    ]_vars

C8_Witness ==
  /\ strategy = "stochastic"
  /\ pc = "visited"
  /\ last.stmt = Assign("x", BinOp(Num(2), "Pow", Num(1)))
  /\ "r" \in DOMAIN env
  /\ env["x"] = IntV(2)

HasString(c) == c.a.t = "str" \/ c.b.t = "str"

\* C9 as stated: an OperatorKind applied to operands one of which is a String
\* raises TypeError, in every strategy.
C9_Original ==
  [][ pc' = "visited"
        => \A j \in 1..Len(last'.calls) :
             HasString(last'.calls[j]) => last'.calls[j].res.t = "TypeError"
    ]_vars

\* the string k times over, as the specification of repetition
IsRepeat(rs, str, k) ==
  /\ Len(rs) = (IF k > 0 THEN k * Len(str) ELSE 0)
  /\ \A i \in 1..Len(rs) : rs[i] = str[((i - 1) % Len(str)) + 1]

\* C9 amended: in every strategy an operator applied to operands one of
\* which is a String raises TypeError, except that Add of two Strings
\* returns their concatenation and Mult of a String and an integer (or
\* boolean) the String repeated; Sub, Div, FloorDiv, Pow and Mod (of
\* Strings without a format specifier) always raise.  The operator that
\* decides is the one the strategy resolved to (true division for a Mod the
\* fault-injecting strategy replaced).
C9_StringOperands ==
  [][ pc' = "visited"
        => \A j \in 1..Len(last'.calls) :
             LET c == last'.calls[j]
             IN HasString(c)
                  => IF c.op = "Add" /\ c.a.t = "str" /\ c.b.t = "str"
                     THEN c.res = StrV(c.a.s \o c.b.s)
                     ELSE IF c.op = "Mult" /\ c.a.t = "str"
                             /\ c.b.t \in {"int", "bool"}
                     THEN c.res.t = "str" /\ IsRepeat(c.res.s, c.a.s, c.b.n)
                     ELSE IF c.op = "Mult" /\ c.b.t = "str"
                             /\ c.a.t \in {"int", "bool"}
                     THEN c.res.t = "str" /\ IsRepeat(c.res.s, c.b.s, c.a.n)
                     ELSE c.res.t = "TypeError" /\ status' = "TypeError"
    ]_vars

\* the fault-injecting strategy put the name x for its value 2, and the
\* floor division of it raised
C9_Witness ==
  /\ strategy = "stochastic"
  /\ pc = "visited"
  /\ last.stmt = AugAssign("x", "FloorDiv", Num(2))
  /\ "x" \in DOMAIN env
  /\ env["x"] = IntV(2)
  /\ last.ds = <<1>>
  /\ last.calls[1].a = StrV(<<120>>)
  /\ status = "TypeError"

\* v is the float p/q, or the ZeroDivisionError of q = 0
IsQuot(val, p, q) ==
  IF q = 0 THEN val.t = "ZeroDivisionError"
  ELSE val.t = "float" /\ val.d > 0 /\ val.n * q = p * val.d

\* a to the power b, b >= 0
RECURSIVE Power(_, _)
Power(a, b) == IF b = 0 THEN 1 ELSE a * Power(a, b - 1)

\* C10: under the deterministic strategy BinaryOp(op, a, b) of integer
\* literals visits left, then right, and returns the sum, difference or
\* product for Add, Sub, Mult, the floor of the quotient for FloorDiv, for
\* Mod the remainder r with a = b * FloorDiv(a, b) + r and the sign of the
\* divisor, the quotient as a float for Div, and a to the power b for Pow.
C10_DeterministicBinOp ==
  (strategy = "correct" /\ pc = "visited" /\ last.stmt.kind = "BinOp"
     /\ last.stmt.left.kind = "Num" /\ last.stmt.right.kind = "Num")
    => LET a == last.stmt.left.n
           b == last.stmt.right.n
           op == last.stmt.op
           res == last.v
       IN /\ Top(last.trace) = <<Event("left", 0), Event("right", 0), Event("op", 0)>>
          /\ op = "Add" => res = IntV(a + b)
          /\ op = "Sub" => res = IntV(a - b)
          /\ op = "Mult" => res = IntV(a * b)
          /\ (op \in {"Div", "FloorDiv", "Mod"} /\ b = 0)
               => res.t = "ZeroDivisionError"
          /\ (op = "Div" /\ b # 0) => IsQuot(res, a, b)
          /\ (op = "FloorDiv" /\ b # 0)
               => /\ res.t = "int"
                  /\ b > 0 => (res.n * b <= a /\ a < (res.n + 1) * b)
                  /\ b < 0 => (res.n * b >= a /\ a > (res.n + 1) * b)
          /\ (op = "Mod" /\ b # 0)
               => /\ res.t = "int"
                  /\ a = b * operator_floordiv(IntV(a), IntV(b)).n + res.n
                  /\ b > 0 => (0 <= res.n /\ res.n < b)
                  /\ b < 0 => (b < res.n /\ res.n <= 0)
          /\ (op = "Pow" /\ b >= 0) => res = IntV(Power(a, b))
          /\ (op = "Pow" /\ b < 0) => IsQuot(res, 1, Power(a, -b))

C10_Witness ==
  /\ strategy = "correct"
  /\ pc = "visited"
  /\ last.stmt = BinOp(Num(-3), "Mod", Num(2))
  /\ last.v = IntV(1)

\* C6: under the pattern-rewriting strategy a BinaryOp of numeric literals in
\* one of the seven shapes returns the rewrite of the shape: (a*b)+c gives
\* a*(b+c), a+(b*c) gives (a+b)*c, (a*b)-c gives a*(b-c), a-(b*c) gives
\* (a-b)*c, (a/b)+c gives a/(c+b), a+(b/c) gives (a+b)/c, each without a
\* draw, and (a+(b/c))+e gives ((a+b)/c)+e, (a+b)/(c+e) or a+(b/(c+e)) as the
\* one draw is 0, 1 or 2, each draw being possible; a BinaryOp in no shape
\* returns the generic result (of its operands as the strategy evaluates
\* them).
C6_PatternRewriting ==
  /\ (strategy = "binding" /\ pc = "visited" /\ last.stmt.kind = "BinOp")
       => LET node == last.stmt
              res == last.v
          IN /\ (IsNumNode(node.left) /\ IsNumNode(node.right))
                  => (node.op = "Mult"
                        => res = IntV(node.left.n * node.right.n) /\ last.ds = <<>>)
             /\ (~IsNumNode(node.left) /\ IsNumNode(node.left.left)
                   /\ IsNumNode(node.left.right))
                  => LET a == node.left.left.n
                         b == node.left.right.n
                         c == node.right.n
                     IN /\ node = MultAdd1(a, b, c)
                             => res = IntV(a * (b + c)) /\ last.ds = <<>>
                        /\ node = MultSub1(a, b, c)
                             => res = IntV(a * (b - c)) /\ last.ds = <<>>
                        /\ node = DivAdd1(a, b, c)
                             => IsQuot(res, a, c + b) /\ last.ds = <<>>
                        /\ node = AddMult(a, b, c)
                             => res = IntV((a + b) * c) /\ last.ds = <<>>
                        /\ node = DivSub(a, b, c)
                             => IsQuot(res, a - c * b, b) /\ last.ds = <<>>
             /\ (IsNumNode(node.left) /\ ~IsNumNode(node.right))
                  => LET a == node.left.n
                         b == node.right.left.n
                         c == node.right.right.n
                     IN /\ node = MultAdd2(a, b, c)
                             => res = IntV((a + b) * c) /\ last.ds = <<>>
                        /\ node = MultSub2(a, b, c)
                             => res = IntV((a - b) * c) /\ last.ds = <<>>
                        /\ node = DivAdd2(a, b, c)
                             => IsQuot(res, a + b, c) /\ last.ds = <<>>
             /\ (~IsNumNode(node.left) /\ ~IsNumNode(node.left.right))
                  => LET a == node.left.left.n
                         b == node.left.right.left.n
                         c == node.left.right.right.n
                         e == node.right.n
                     IN /\ node = FourTermOf(a, b, c, e)
                             => /\ last.ds \in {<<0>>, <<1>>, <<2>>}
                                /\ last.ds = <<0>>
                                     => IsQuot(res, a + b + e * c, c)
                                /\ last.ds = <<1>> => IsQuot(res, a + b, c + e)
                                /\ last.ds = <<2>>
                                     => IsQuot(res, a * (c + e) + b, c + e)
                        /\ node = MultAddAdd(a, b, c, e)
                             => res = IntV((a + b) * c + e) /\ last.ds = <<>>
             /\ node = MultAdd1(2, 3, 4) => res = IntV(14)
  /\ (strategy = "binding" /\ pc = "idle" /\ status = "ok")
       => \A a \in Leaves, b \in Leaves, c \in Leaves, e \in Leaves :
            {o.ds : o \in Outcomes("binding", env, FourTermOf(a, b, c, e), <<>>)}
              = {<<0>>, <<1>>, <<2>>}

\* (4 + (2/2)) + 3 with the draw 1: (4 + 2) / (2 + 3)
C6_Witness ==
  /\ strategy = "binding"
  /\ pc = "visited"
  /\ last.stmt = FourTermOf(4, 2, 2, 3)
  /\ last.ds = <<1>>
  /\ last.v.t = "float"
  /\ last.v.n = 6
  /\ last.v.d = 5

\* the operands of a Compare: the left one is operand 0
CmpOperand(node, i) == IF i = 0 THEN node.left ELSE node.comparators[i]

\* the host cannot order the values: a number and a string
Incomparable(op, a, b) ==
  /\ op \in {"Lt", "Le", "Ge", "Gt"}
  /\ a.t # b.t

\* the pair satisfies the CompareKind, for two integers or two strings
Satisfies(op, a, b) ==
  IF a.t = "int" /\ b.t = "int"
  THEN CASE op = "Lt" -> a.n < b.n
         [] op = "Le" -> a.n <= b.n
         [] op = "Eq" -> a.n = b.n
         [] op = "Ne" -> a.n # b.n
         [] op = "Ge" -> a.n >= b.n
         [] op = "Gt" -> a.n > b.n
  ELSE IF a.t = "str" /\ b.t = "str"
  THEN CASE op = "Lt" -> StrLess(a.s, b.s)
         [] op = "Le" -> a.s = b.s \/ StrLess(a.s, b.s)
         [] op = "Eq" -> a.s = b.s
         [] op = "Ne" -> a.s # b.s
         [] op = "Ge" -> a.s = b.s \/ StrLess(b.s, a.s)
         [] op = "Gt" -> StrLess(b.s, a.s)
  ELSE op = "Ne"

\* C3: Compare evaluates left, then every comparator, left to right, before
\* it compares anything: an operand that fails to evaluate (the unbound Name
\* z) fails the Compare whatever the earlier pairs are; with all operands
\* evaluated it returns true iff every consecutive pair satisfies its
\* CompareKind and false at the first pair that does not (a pair the host
\* cannot order raises TypeError, if no earlier pair fails).
C3_CompareChain ==
  (pc = "visited" /\ last.stmt.kind = "Compare")
    => LET node == last.stmt
           n == Len(node.ops)
           unbound == {i \in 0..n : CmpOperand(node, i).kind = "Name"}
           val(i) == Denotes(CmpOperand(node, i))
           stops == {i \in 1..n :
                       \/ Incomparable(node.ops[i], val(i - 1), val(i))
                       \/ ~Satisfies(node.ops[i], val(i - 1), val(i))}
           first == CHOOSE i \in stops : \A j \in stops : i <= j
           evs == TopOf(last.trace, {"left", "comparators"})
       IN /\ unbound # {}
               => /\ last.v.t = "UndefinedVariable"
                  /\ \E k \in unbound :
                       /\ \A j \in unbound : k <= j
                       /\ Len(evs) = k + 1
          /\ unbound = {}
               => /\ Len(evs) = n + 1
                  /\ stops = {} => last.v = BoolV(TRUE)
                  /\ stops # {}
                       => IF Incomparable(node.ops[first], val(first - 1), val(first))
                          THEN last.v.t = "TypeError"
                          ELSE last.v = BoolV(FALSE)
          /\ Len(evs) >= 1
          /\ evs[1] = Event("left", 0)
          /\ \A i \in 2..Len(evs) : evs[i] = Event("comparators", i - 1)

\* 1 > 2 < z: the first pair is false, and the unbound z still fails it
C3_Witness ==
  /\ pc = "visited"
  /\ last.stmt = Compare(Num(1), <<"Gt", "Lt">>, <<Num(2), Name("z")>>)
  /\ last.v.t = "UndefinedVariable"
  /\ status = "UndefinedVariable"

====
